---- MODULE Spec2Model ----
(***************************************************************************)
(* A model of cbs_pandas.core.dataset.Dataset: the lazily fetched and      *)
(* memoized raw table and metadata mapping, and the cleaning pipeline      *)
(* that turns the raw long-format table into the cleaned wide table.       *)
(*                                                                         *)
(* Text is modelled as tuples of one-character strings, so that the        *)
(* substring tests, suffix tests, replacements, the period regex and the   *)
(* string form of a row are computed character by character as the code    *)
(* computes them.  A table is a record [cols, rows]: cols the column       *)
(* labels in order, rows a tuple of functions from label to cell.  Tables  *)
(* live in a heap of objects, so that a stage that assigns a column in     *)
(* place changes the object it received and a stage that returns a new     *)
(* frame allocates one.                                                    *)
(***************************************************************************)
EXTENDS Integers, Sequences, FiniteSets, TLC

VARIABLES
    \* ---- the Dataset entity and its callers
    _data,        \* Dataset._data: None or the cached raw table
    _metadata,    \* Dataset._metadata: None or the cached metadata mapping
    server,       \* what the upstream API serves for this dataset
    pc,           \* per caller: where the caller is inside the entity
    op,           \* per caller: the property being accessed
    page,         \* per caller: _get_odata's target_url, as a page number
    acc,          \* per caller: _get_odata's local `data`
    todo,         \* per caller: categories _ensure_have_metadata still has to fetch
    local,        \* per caller: _ensure_have_metadata's local `metadata`
    ret,          \* per caller: what the last finished access returned or raised
    last,         \* the caller and property of the access that finished last
    nCalls,       \* accesses started
    nFetch,       \* runs of _get_odata that returned
    nDataWrites,  \* assignments to self._data
    nMdLoops,     \* metadata fetch loops started
    nMdWrites,    \* assignments to self._metadata
    nClean,       \* runs of _clean_df
    \* ---- the cleaning pipeline run on its own
    raw,          \* the raw table given to the pipeline
    md,           \* the metadata mapping given to the pipeline
    stage,        \* number of stages done, or "failed"
    ps,           \* the pipeline's heap of tables, the current frame, the error
    hist          \* the table after each stage so far (hist[1] is the input)

entityVars == <<_data, _metadata, server, pc, op, page, acc, todo, local, ret,
                last, nCalls, nFetch, nDataWrites, nMdLoops, nMdWrites, nClean>>
cleanVars == <<raw, md, stage, ps, hist>>
vars == <<entityVars, cleanVars>>

\* Python's None, and the absence of an exception.
None == [k |-> "None"]
NoError == "NoError"

Range(s) == {s[i] : i \in 1..Len(s)}

\* ------------------------------------------------------------------ text

\* s[i..] starts with t.
IsPrefixAt(s, t, i) ==
    /\ i + Len(t) - 1 <= Len(s)
    /\ \A j \in 1..Len(t) : s[i + j - 1] = t[j]

\* Python's `t in s` on strings.
Contains(s, t) == \E i \in 1..(Len(s) - Len(t) + 1) : IsPrefixAt(s, t, i)

\* Python's s.endswith(t).
EndsWith(s, t) ==
    /\ Len(t) <= Len(s)
    /\ SubSeq(s, Len(s) - Len(t) + 1, Len(s)) = t

\* Python's s.replace(old, new): every non-overlapping occurrence, left to right.
RECURSIVE StrReplace(_, _, _)
StrReplace(s, old, new) ==
    IF Len(s) = 0 THEN <<>>
    ELSE IF IsPrefixAt(s, old, 1)
         THEN new \o StrReplace(SubSeq(s, Len(old) + 1, Len(s)), old, new)
         ELSE <<Head(s)>> \o StrReplace(Tail(s), old, new)

Digits == <<"0", "1", "2", "3", "4", "5", "6", "7", "8", "9">>
IsDigit(c) == c \in Range(Digits)
IsUpper(c) == c \in {"A", "B", "C", "D", "E", "F", "G", "H", "I", "J", "K", "L", "M",
                     "N", "O", "P", "Q", "R", "S", "T", "U", "V", "W", "X", "Y", "Z"}
DigitVal(c) == (CHOOSE i \in 1..10 : Digits[i] = c) - 1

\* Python's int(s) on a string of decimal digits.
RECURSIVE int(_)
int(s) == IF Len(s) = 0 THEN 0
          ELSE int(SubSeq(s, 1, Len(s) - 1)) * 10 + DigitVal(s[Len(s)])

\* Python's str(n) for n >= 0.
RECURSIVE str(_)
str(n) == IF n < 10 THEN <<Digits[n + 1]>> ELSE str(n \div 10) \o <<Digits[(n % 10) + 1]>>

\* n as at least w digits (the %04d and %02d of a date's text).
RECURSIVE ZeroPad(_, _)
ZeroPad(s, w) == IF Len(s) >= w THEN s ELSE ZeroPad(<<"0">> \o s, w)

\* ----------------------------------------------------------------- cells

Str(s) == [k |-> "str", s |-> s]
Num(n) == [k |-> "num", n |-> n]
Timestamp(y, m, d) == [k |-> "date", y |-> y, m |-> m, d |-> d]
NaN == [k |-> "nan"]

\* The names the code spells out.
sId == <<"I", "d">>
sValueAttribute == <<"V", "a", "l", "u", "e", "A", "t", "t", "r", "i", "b", "u", "t", "e">>
sMeasure == <<"M", "e", "a", "s", "u", "r", "e">>
sValue == <<"V", "a", "l", "u", "e">>
sPerioden == <<"P", "e", "r", "i", "o", "d", "e", "n">>
sCodes == <<"C", "o", "d", "e", "s">>
sYear == <<"Y", "e", "a", "r">>
sFrequency == <<"F", "r", "e", "q", "u", "e", "n", "c", "y">>
sCount == <<"C", "o", "u", "n", "t">>
sDate == <<"D", "a", "t", "e">>
sTotaal == <<"T", "o", "t", "a", "a", "l">>
sNone == <<"N", "o", "n", "e">>
sProperties == <<"P", "r", "o", "p", "e", "r", "t", "i", "e", "s">>
sObservations == <<"O", "b", "s", "e", "r", "v", "a", "t", "i", "o", "n", "s">>

\* ---------------------------------------------------------------- tables

NRows(t) == Len(t.rows)
HasCol(t, c) == c \in Range(t.cols)

\* The labels of `cols` not in `gone`, in order.
RECURSIVE Without(_, _)
Without(cols, gone) ==
    IF Len(cols) = 0 THEN <<>>
    ELSE IF Head(cols) \in gone THEN Without(Tail(cols), gone)
         ELSE <<Head(cols)>> \o Without(Tail(cols), gone)

\* DataFrame.drop(columns=gone, errors="ignore"), as a value.
DropCols(t, gone) ==
    LET cols == Without(t.cols, gone)
    IN  [cols |-> cols,
         rows |-> [i \in 1..NRows(t) |-> [c \in Range(cols) |-> t.rows[i][c]]]]

\* df[c] = vals, as a value: an existing column is overwritten, a new one is
\* appended.
SetCol(t, c, vals) ==
    LET cols == IF HasCol(t, c) THEN t.cols ELSE Append(t.cols, c)
    IN  [cols |-> cols,
         rows |-> [i \in 1..NRows(t) |->
                      [k \in Range(cols) |-> IF k = c THEN vals[i] ELSE t.rows[i][k]]]]

\* The pipeline's view of memory: the frames allocated so far, the frame the
\* variable `df` refers to, and the exception raised, if any.
Frame(s) == s.heap[s.ref]
Alloc(s, t) == [s EXCEPT !.heap = Append(s.heap, t), !.ref = Len(s.heap) + 1]
InPlace(s, t) == [s EXCEPT !.heap[s.ref] = t]
Raise(s, e) == [s EXCEPT !.err = e]
Start(t) == [heap |-> <<t>>, ref |-> 1, err |-> NoError]

\* ------------------------------------------------- the cleaning pipeline

\* As drop(..., inplace=True) would: the frame received loses the columns.
_clean_drop_unecessary_column_inplace(s) ==
    InPlace(s, DropCols(Frame(s), {sId, sValueAttribute}))

\* Stage 1.  drop returns a new frame; the frame it was given is untouched.
_clean_drop_unecessary_column(s) ==
    Alloc(s, DropCols(Frame(s), {sId, sValueAttribute}))

\* Series.replace(old, new): the cells equal to old become new.
SeriesReplace(vals, old, new) ==
    [i \in DOMAIN vals |-> IF vals[i] = Str(old) THEN Str(new) ELSE vals[i]]

\* new_value: the title, with " (unit)" appended when the descriptor has a Unit.
NewValue(value) ==
    IF "Unit" \in DOMAIN value
    THEN value.Title \o <<" ", "(">> \o value.Unit \o <<")">>
    ELSE value.Title

\* The inner loop: one whole-column replace per descriptor, in list order,
\* each assigned in place to df[col].  df[col] raises KeyError if col is missing.
RECURSIVE ApplyDescriptors(_, _, _)
ApplyDescriptors(s, col, values) ==
    IF s.err # NoError \/ Len(values) = 0 THEN s
    ELSE IF ~HasCol(Frame(s), col) THEN Raise(s, "KeyError")
    ELSE LET t == Frame(s)
             column == [i \in 1..NRows(t) |-> t.rows[i][col]]
             replaced == SeriesReplace(column, Head(values).Identifier, NewValue(Head(values)))
         IN  ApplyDescriptors(InPlace(s, SetCol(t, col, replaced)), col, Tail(values))

\* Stage 2.  The outer loop over the categories, in the mapping's order: those
\* whose name ends with "Codes" and does not contain "Perioden".
RECURSIVE _clean_apply_metadata_mappings(_, _)
_clean_apply_metadata_mappings(s, metadata) ==
    IF s.err # NoError \/ Len(metadata) = 0 THEN s
    ELSE LET item == Head(metadata)
         IN  IF ~EndsWith(item.name, sCodes) \/ Contains(item.name, sPerioden)
             THEN _clean_apply_metadata_mappings(s, Tail(metadata))
             ELSE _clean_apply_metadata_mappings(
                      ApplyDescriptors(s, StrReplace(item.name, sCodes, <<>>), item.value),
                      Tail(metadata))

\* The regex (\d{4})([A-Z]{2})(\d{2}) matches s at position i.
MatchAt(s, i) ==
    /\ i + 7 <= Len(s)
    /\ \A j \in 0..3 : IsDigit(s[i + j])
    /\ IsUpper(s[i + 4]) /\ IsUpper(s[i + 5])
    /\ IsDigit(s[i + 6]) /\ IsDigit(s[i + 7])

\* Series.str.extract(regex) on one cell: the groups of the first match
\* anywhere in the text, or three missing values.
Extract(cell) ==
    IF cell.k = "str" /\ \E i \in 1..Len(cell.s) : MatchAt(cell.s, i)
    THEN LET i == CHOOSE i \in 1..Len(cell.s) :
                      MatchAt(cell.s, i) /\ \A j \in 1..(i - 1) : ~MatchAt(cell.s, j)
         IN  <<Str(SubSeq(cell.s, i, i + 3)), Str(SubSeq(cell.s, i + 4, i + 5)),
               Str(SubSeq(cell.s, i + 6, i + 7))>>
    ELSE <<NaN, NaN, NaN>>

\* data.replace({"Frequency": freq_dict}) on one cell of the Frequency column.
freq_dict(cell) ==
    IF cell = Str(<<"J", "J">>) THEN Str(<<"Y">>)
    ELSE IF cell = Str(<<"K", "W">>) THEN Str(<<"Q">>)
    ELSE IF cell = Str(<<"M", "M">>) THEN Str(<<"M">>)
    ELSE cell

\* dt.datetime(year, month, day) with day 1: ValueError outside years 1..9999
\* and months 1..12.
datetime(year, month, day) ==
    IF year >= 1 /\ year <= 9999 /\ month >= 1 /\ month <= 12
    THEN [err |-> NoError, v |-> Timestamp(year, month, day)]
    ELSE [err |-> "ValueError", v |-> NaN]

\* The row function given to data.apply(..., axis=1).
convert_cbs_period(row) ==
    IF row[sFrequency] = Str(<<"Y">>)
    THEN datetime(int(row[sYear].s), 1, 1)
    ELSE IF row[sFrequency] = Str(<<"M">>)
    THEN datetime(int(row[sYear].s), int(row[sCount].s), 1)
    ELSE IF row[sFrequency] = Str(<<"Q">>)
    THEN datetime(int(row[sYear].s), int(row[sCount].s) * 3 - 2, 1)
    ELSE [err |-> NoError, v |-> NaN]

\* Every scratch column dropped, Frequency too.
DroppedAfterDate_all_scratch == {sYear, sFrequency, sCount, sPerioden}

\* The columns the final drop names.
DroppedAfterDate == {sYear, sCount, sPerioden}

\* The three scratch columns are assigned in place on the frame received;
\* replace returns a new frame, Date is assigned in place on that one, and the
\* final drop returns a third.  Frequency is not among the dropped columns.
_cbs_add_date_column(s) ==
    LET data == Frame(s)
        ex == [i \in 1..NRows(data) |-> Extract(data.rows[i][sPerioden])]
        scratch == SetCol(SetCol(SetCol(data,
                       sYear, [i \in 1..NRows(data) |-> ex[i][1]]),
                       sFrequency, [i \in 1..NRows(data) |-> ex[i][2]]),
                       sCount, [i \in 1..NRows(data) |-> ex[i][3]])
        s1 == InPlace(s, scratch)
        mapped == SetCol(scratch, sFrequency,
                         [i \in 1..NRows(data) |-> freq_dict(scratch.rows[i][sFrequency])])
        s2 == Alloc(s1, mapped)
        conv == [i \in 1..NRows(data) |-> convert_cbs_period(mapped.rows[i])]
    IN  IF \E i \in 1..NRows(data) : conv[i].err # NoError
        THEN Raise(s2, "ValueError")
        ELSE LET dated == SetCol(mapped, sDate, [i \in 1..NRows(data) |-> conv[i].v])
                 s3 == InPlace(s2, dated)
             IN  Alloc(s3, DropCols(dated, DroppedAfterDate))

\* Stage 3.
_clean_handle_timestamp_column(s) ==
    IF HasCol(Frame(s), sPerioden) THEN _cbs_add_date_column(s) ELSE s

\* The characters of the model in code-point order, for the sort pivot does.
Ascii == <<" ", "'", "(", ")", "-", ".",
           "0", "1", "2", "3", "4", "5", "6", "7", "8", "9", ":",
           "A", "B", "C", "D", "E", "F", "G", "H", "I", "J", "K", "L", "M",
           "N", "O", "P", "Q", "R", "S", "T", "U", "V", "W", "X", "Y", "Z", "[", "]",
           "a", "b", "c", "d", "e", "f", "g", "h", "i", "j", "k", "l", "m",
           "n", "o", "p", "q", "r", "s", "t", "u", "v", "w", "x", "y", "z">>
Ord(c) == CHOOSE i \in 1..Len(Ascii) : Ascii[i] = c

RECURSIVE StrLess(_, _)
StrLess(a, b) ==
    IF Len(b) = 0 THEN FALSE
    ELSE IF Len(a) = 0 THEN TRUE
    ELSE IF Head(a) = Head(b) THEN StrLess(Tail(a), Tail(b))
    ELSE Ord(Head(a)) < Ord(Head(b))

\* The order of an index level: text by code point, numbers and dates by
\* value, missing values last.
KindRank(cell) == CASE cell.k = "num" -> 1 [] cell.k = "date" -> 2
                    [] cell.k = "str" -> 3 [] OTHER -> 4
CellLess(a, b) ==
    IF a.k # b.k THEN KindRank(a) < KindRank(b)
    ELSE CASE a.k = "str" -> StrLess(a.s, b.s)
           [] a.k = "num" -> a.n < b.n
           [] a.k = "date" -> \/ a.y < b.y
                              \/ a.y = b.y /\ a.m < b.m
                              \/ a.y = b.y /\ a.m = b.m /\ a.d < b.d
           [] OTHER -> FALSE

RECURSIVE KeyLess(_, _)
KeyLess(a, b) ==
    IF Len(a) = 0 \/ Len(b) = 0 THEN FALSE
    ELSE IF Head(a) = Head(b) THEN KeyLess(Tail(a), Tail(b))
    ELSE CellLess(Head(a), Head(b))

\* The keys of S in ascending order.
RECURSIVE SortKeys(_)
SortKeys(S) ==
    IF S = {} THEN <<>>
    ELSE LET least == CHOOSE x \in S : \A y \in S \ {x} : KeyLess(x, y)
         IN  <<least>> \o SortKeys(S \ {least})

\* The index columns of the pivot: every column but Measure and Value.
PivotIndex(df) == Without(df.cols, {sMeasure, sValue})
KeyOf(df, i) == [j \in 1..Len(PivotIndex(df)) |-> df.rows[i][PivotIndex(df)[j]]]

\* The reshaped table, after reset_index: one row per index key (sorted),
\* labelled (index column, "") and ("Value", measure), a missing value where no
\* row has that key and measure.
Pivoted(df) ==
    LET index == PivotIndex(df)
        keys == SortKeys({KeyOf(df, i) : i \in 1..NRows(df)})
        measures == SortKeys({<<df.rows[i][sMeasure]>> : i \in 1..NRows(df)})
        labels == [j \in 1..Len(index) |-> <<index[j], <<>>>>]
                  \o [j \in 1..Len(measures) |-> <<sValue, measures[j][1].s>>]
        Cell(key, label) ==
            IF label[2] = <<>>
            THEN key[CHOOSE j \in 1..Len(index) : index[j] = label[1]]
            ELSE LET hit == {i \in 1..NRows(df) :
                                /\ KeyOf(df, i) = key
                                /\ df.rows[i][sMeasure] = Str(label[2])}
                 IN  IF hit = {} THEN NaN
                     ELSE df.rows[CHOOSE i \in hit : \A j \in hit : j <= i][sValue]
    IN  [cols |-> labels,
         rows |-> [r \in 1..Len(keys) |-> [l \in Range(labels) |-> Cell(keys[r], l)]]]

\* As pivot_table(aggfunc="last") would: of the rows that share key and
\* measure the last one's value is kept.
_clean_make_data_pivot_keep_last(s) ==
    IF ~HasCol(Frame(s), sMeasure) \/ ~HasCol(Frame(s), sValue) THEN Raise(s, "KeyError")
    ELSE Alloc(s, Pivoted(Frame(s)))

\* Stage 4.  DataFrame.pivot(index=..., columns=["Measure"], values=["Value"])
\* and reset_index: KeyError without a Measure or Value column, ValueError
\* ("Index contains duplicate entries") when two rows share index key and
\* Measure.
_clean_make_data_pivot(s) ==
    LET df == Frame(s)
    IN  IF ~HasCol(df, sMeasure) \/ ~HasCol(df, sValue) THEN Raise(s, "KeyError")
        ELSE IF \E i, j \in 1..NRows(df) :
                    /\ i < j
                    /\ KeyOf(df, i) = KeyOf(df, j)
                    /\ df.rows[i][sMeasure] = df.rows[j][sMeasure]
        THEN Raise(s, "ValueError")
        ELSE Alloc(s, Pivoted(df))

\* Stage 5.  Each compound label becomes its second part unless that is empty;
\* the labels are assigned in place.
_clean_rename_column(s) ==
    LET df == Frame(s)
        rename_columns == [j \in 1..Len(df.cols) |->
                              IF df.cols[j][2] = <<>> THEN df.cols[j][1] ELSE df.cols[j][2]]
        Old(name) == df.cols[CHOOSE j \in 1..Len(df.cols) : rename_columns[j] = name]
    IN  InPlace(s, [cols |-> rename_columns,
                    rows |-> [i \in 1..NRows(df) |->
                                 [name \in Range(rename_columns) |-> df.rows[i][Old(name)]]]])

\* repr of one element of row.values, an object array.
Repr(cell) ==
    CASE cell.k = "str" -> <<"'">> \o cell.s \o <<"'">>
      [] cell.k = "num" -> str(cell.n) \o <<".", "0">>
      [] cell.k = "date" ->
             <<"T", "i", "m", "e", "s", "t", "a", "m", "p", "(", "'">>
             \o ZeroPad(str(cell.y), 4) \o <<"-">> \o ZeroPad(str(cell.m), 2)
             \o <<"-">> \o ZeroPad(str(cell.d), 2)
             \o <<" ", "0", "0", ":", "0", "0", ":", "0", "0", "'", ")">>
      [] OTHER -> <<"n", "a", "n">>

\* str(row.values): the elements' reprs between brackets, a space apart.
RECURSIVE JoinReprs(_, _)
JoinReprs(row, cols) ==
    IF Len(cols) = 0 THEN <<>>
    ELSE IF Len(cols) = 1 THEN Repr(row[cols[1]])
    ELSE Repr(row[Head(cols)]) \o <<" ">> \o JoinReprs(row, Tail(cols))

StrOfValues(row, cols) == <<"[">> \o JoinReprs(row, cols) \o <<"]">>

\* A row counted as a summation row only when a cell is exactly the token.
IsSummationRow_exact(row, cols) == \E c \in Range(cols) : row[c] = Str(sTotaal)

\* The lambda's test: "Totaal" in str(row.values).
IsSummationRow(row, cols) == Contains(StrOfValues(row, cols), sTotaal)

\* Stage 6.  The rows that are not summation rows, as a new frame.
_clean_remove_summation_value(s) ==
    LET df == Frame(s)
    IN  Alloc(s, [cols |-> df.cols,
                  rows |-> SelectSeq(df.rows, LAMBDA row : ~IsSummationRow(row, df.cols))])

\* An exception raised by a stage ends the pipeline: the later stages are not
\* run.
ThenTimestamp(s) == IF s.err # NoError THEN s ELSE _clean_handle_timestamp_column(s)
ThenPivot(s) == IF s.err # NoError THEN s ELSE _clean_make_data_pivot(s)
ThenRename(s) == IF s.err # NoError THEN s ELSE _clean_rename_column(s)
ThenSummation(s) == IF s.err # NoError THEN s ELSE _clean_remove_summation_value(s)

\* The pipeline: the six stages in order.
_clean_df(s, metadata) ==
    ThenSummation(ThenRename(ThenPivot(ThenTimestamp(
        _clean_apply_metadata_mappings(_clean_drop_unecessary_column(s), metadata)))))

\* ------------------------------------------------------------ the inputs

sRegion == <<"R", "e", "g", "i", "o", "n">>
sNL == <<"N", "L">>
sT0 == <<"T", "0">>
sM1 == <<"M", "1">>
sM2 == <<"M", "2">>
sNederland == <<"N", "e", "d", "e", "r", "l", "a", "n", "d">>
sTotaalwaarde == sTotaal \o <<"w", "a", "a", "r", "d", "e">>
sLowerTotaal == <<"t", "o", "t", "a", "a", "l">>
sBevolking == <<"B", "e", "v", "o", "l", "k", "i", "n", "g">>
sEuro == <<"e", "u", "r", "o">>
sGroups == <<"G", "r", "o", "u", "p", "s">>
s2020JJ00 == <<"2", "0", "2", "0", "J", "J", "0", "0">>
s2020KW01 == <<"2", "0", "2", "0", "K", "W", "0", "1">>

\* The longest raw table of the pipeline's inputs.
MaxRows == 2

D(identifier, title) == [Identifier |-> identifier, Title |-> title]
DU(identifier, title, unit) == [Identifier |-> identifier, Title |-> title, Unit |-> unit]

\* Descriptor lists for the Region dimension: none for T0, a summation title
\* for T0, a title that only contains the token, titles that are themselves
\* identifiers of the list (in both orders), a lower-case title.
RegionCodesChoices ==
    { <<D(sNL, sNederland)>>,
      <<D(sNL, sNederland), D(sT0, sTotaal)>>,
      <<D(sNL, sNederland), D(sT0, sTotaalwaarde)>>,
      <<D(sNL, sT0), D(sT0, sTotaal)>>,
      <<D(sT0, sTotaal), D(sNL, sT0)>>,
      <<D(sNL, sNederland), D(sT0, sLowerTotaal)>> }

\* Descriptor lists for the measures: plain titles, or a title with a unit
\* and a title that contains the summation token.
MeasureCodesChoices ==
    { <<D(sM1, sBevolking), D(sM2, sM2)>>,
      <<DU(sM1, sBevolking, sEuro), D(sM2, sTotaal)>> }

\* The metadata mappings: category name and content, in the mapping's order.
MetadataChoices ==
    { << [name |-> sRegion \o sGroups, value |-> <<>>],
         [name |-> sMeasure \o sCodes, value |-> mc],
         [name |-> sPerioden \o sCodes, value |-> <<D(s2020JJ00, <<"2", "0", "2", "0">>)>>],
         [name |-> sRegion \o sCodes, value |-> rc] >> :
      rc \in RegionCodesChoices, mc \in MeasureCodesChoices }

\* A full observation record as the API returns it, and a bare one without
\* housekeeping and period columns.
FullCols == <<sId, sMeasure, sValueAttribute, sValue, sRegion, sPerioden>>
BareCols == <<sRegion, sMeasure, sValue>>
FullRow(i, m, r, p) ==
    [c \in Range(FullCols) |->
        CASE c = sId -> Num(i)
          [] c = sMeasure -> Str(m)
          [] c = sValueAttribute -> Str(sNone)
          [] c = sValue -> Num(i)
          [] c = sRegion -> Str(r)
          [] OTHER -> Str(p)]
BareRow(i, m, r) ==
    [c \in Range(BareCols) |->
        CASE c = sMeasure -> Str(m) [] c = sValue -> Num(i) [] OTHER -> Str(r)]

\* The raw tables: every sequence of 1..MaxRows observations over two measures,
\* two regions and a yearly and a quarterly period that decode to the same
\* date.  The i-th row has Id i and Value i, so that no two rows carry the
\* same value.
FullTables ==
    {[cols |-> FullCols,
      rows |-> [i \in 1..n |-> FullRow(i, m[i], r[i], p[i])]] :
     <<n, m, r, p>> \in UNION {{k} \X [1..k -> {sM1, sM2}] \X [1..k -> {sNL, sT0}]
                                   \X [1..k -> {s2020JJ00, s2020KW01}] : k \in 1..MaxRows}}
BareTables ==
    {[cols |-> BareCols,
      rows |-> [i \in 1..n |-> BareRow(i, m[i], r[i])]] :
     <<n, m, r>> \in UNION {{k} \X [1..k -> {sM1, sM2}] \X [1..k -> {sNL, sT0}]
                                : k \in 1..MaxRows}}
RawTables == FullTables \cup BareTables

\* ------------------------------------------ the pipeline, stage by stage

Callers == {1, 2}

\* The entity is not part of the runs of the pipeline on its own.
EntityUnused ==
    /\ _data = None /\ _metadata = None /\ server = None
    /\ pc = [c \in Callers |-> "idle"] /\ op = [c \in Callers |-> "-"]
    /\ page = [c \in Callers |-> 0] /\ acc = [c \in Callers |-> <<>>]
    /\ todo = [c \in Callers |-> <<>>] /\ local = [c \in Callers |-> <<>>]
    /\ ret = [c \in Callers |-> None] /\ last = 0
    /\ nCalls = 0 /\ nFetch = 0 /\ nDataWrites = 0 /\ nMdLoops = 0
    /\ nMdWrites = 0 /\ nClean = 0

InitClean ==
    /\ EntityUnused
    /\ raw \in RawTables
    /\ md \in MetadataChoices
    /\ stage = 0
    /\ ps = Start(raw)
    /\ hist = <<raw>>

\* Stage k has run and left the pipeline in s.
Advance(k, s) ==
    /\ stage = k - 1
    /\ ps.err = NoError
    /\ stage' = k
    /\ ps' = s
    /\ hist' = IF s.err = NoError THEN Append(hist, Frame(s)) ELSE hist
    /\ UNCHANGED <<raw, md, entityVars>>

DropStage == Advance(1, _clean_drop_unecessary_column(ps))
MappingStage == Advance(2, _clean_apply_metadata_mappings(ps, md))
TimestampStage == Advance(3, _clean_handle_timestamp_column(ps))
PivotStage == Advance(4, _clean_make_data_pivot(ps))
RenameStage == Advance(5, _clean_rename_column(ps))
SummationStage == Advance(6, _clean_remove_summation_value(ps))

NextClean ==
    \/ DropStage
    \/ MappingStage
    \/ TimestampStage
    \/ PivotStage
    \/ RenameStage
    \/ SummationStage

SpecClean == InitClean /\ [][NextClean]_vars

\* ------------------------------------------------------------ the entity

\* Accesses the callers make in all.
MaxCalls == 3

\* What the API serves: the observation pages in next-link order, the item
\* names under the dataset's root, and the content of each category.
Served(pages, metadata) ==
    [pages |-> pages,
     root |-> <<sProperties, sObservations>> \o [i \in 1..Len(metadata) |-> metadata[i].name],
     cats |-> metadata]

MetadataWith(rc) ==
    CHOOSE m \in MetadataChoices :
        m[4].value = rc /\ m[2].value = <<D(sM1, sBevolking), D(sM2, sM2)>>

\* Three datasets: two pages with a summation row, one page whose rows share
\* key and measure, and two pages under metadata whose titles are identifiers.
ServerChoices ==
    { Served(<< <<FullRow(1, sM1, sNL, s2020JJ00)>>,
                <<FullRow(2, sM2, sNL, s2020JJ00), FullRow(3, sM1, sT0, s2020JJ00)>> >>,
             MetadataWith(<<D(sNL, sNederland), D(sT0, sTotaal)>>)),
      Served(<< <<FullRow(1, sM1, sNL, s2020KW01), FullRow(2, sM1, sNL, s2020KW01)>> >>,
             MetadataWith(<<D(sNL, sNederland)>>)),
      Served(<< <<FullRow(1, sM1, sNL, s2020JJ00)>>, <<FullRow(2, sM1, sT0, s2020KW01)>> >>,
             MetadataWith(<<D(sNL, sT0), D(sT0, sTotaal)>>)) }

\* pd.concat of the pages so far with the next page.
Concat(rows, pageRows) == rows \o pageRows
AsTable(rows) == [cols |-> FullCols, rows |-> rows]

\* The item names the metadata loop fetches: all but the two reserved ones.
RECURSIVE NonReserved(_)
NonReserved(names) ==
    IF Len(names) = 0 THEN <<>>
    ELSE IF Head(names) \in {sProperties, sObservations} THEN NonReserved(Tail(names))
         ELSE <<Head(names)>> \o NonReserved(Tail(names))

Category(srv, name) == srv.cats[CHOOSE i \in 1..Len(srv.cats) : srv.cats[i].name = name]

\* A mapping object: the (name, content) items in insertion order.
Dict(items) == [items |-> items]

\* The guard left out: every access fetches.
IsNone_unguarded(field) == TRUE

\* The presence check of _ensure_have_data and _ensure_have_metadata.
IsNone(field) == field = None

\* The loop filling self._metadata itself instead of a local mapping.
MetadataField_eager(field, metadata, done) == Dict(metadata)

\* self._metadata while the loop runs: the local mapping is assigned only
\* after the last category has been fetched.
MetadataField(field, metadata, done) == IF done THEN Dict(metadata) ELSE field

\* The exception of a failed request, with the requests of the loop that had
\* succeeded before it.
FetchError(what, done) == [error |-> "FetchError", during |-> what, after |-> done]

InitEntity ==
    /\ _data = None /\ _metadata = None
    /\ server \in ServerChoices
    /\ pc = [c \in Callers |-> "idle"] /\ op = [c \in Callers |-> "-"]
    /\ page = [c \in Callers |-> 0] /\ acc = [c \in Callers |-> <<>>]
    /\ todo = [c \in Callers |-> <<>>] /\ local = [c \in Callers |-> <<>>]
    /\ ret = [c \in Callers |-> None] /\ last = 0
    /\ nCalls = 0 /\ nFetch = 0 /\ nDataWrites = 0 /\ nMdLoops = 0
    /\ nMdWrites = 0 /\ nClean = 0
    /\ raw = None /\ md = None /\ stage = 0 /\ ps = None /\ hist = <<>>

\* The access by caller c ends: it returns or raises `value`, and the locals
\* of its calls are gone.
Return(c, value) ==
    /\ pc' = [pc EXCEPT ![c] = "idle"]
    /\ ret' = [ret EXCEPT ![c] = value]
    /\ last' = c
    /\ page' = [page EXCEPT ![c] = 0]
    /\ acc' = [acc EXCEPT ![c] = <<>>]
    /\ todo' = [todo EXCEPT ![c] = <<>>]
    /\ local' = [local EXCEPT ![c] = <<>>]

\* df, past the lazy fetches, with the fields as they will be after this step:
\* _clean_df(self._data).  The frame self._data refers to is heap[1]; whatever
\* the pipeline assigned in place on it is what the field holds afterwards.
CleanAndReturn(c, dataNow, metadataNow) ==
    LET out == _clean_df(Start(dataNow), metadataNow)
    IN  /\ _data' = out.heap[1]
        /\ Return(c, IF out.err # NoError THEN [error |-> out.err, during |-> "clean"]
                     ELSE Frame(out))
        /\ nClean' = nClean + 1

\* df after _ensure_have_data: stage 2 reads self.metadata, which fetches the
\* metadata first if the field is unset.
AfterData(c, dataNow) ==
    IF IsNone(_metadata)
    THEN /\ pc' = [pc EXCEPT ![c] = "md_root"]
         /\ nMdLoops' = nMdLoops + 1
         /\ _data' = dataNow
         /\ page' = [page EXCEPT ![c] = 0]
         /\ acc' = [acc EXCEPT ![c] = <<>>]
         /\ UNCHANGED <<todo, local, ret, last, nClean>>
    ELSE /\ CleanAndReturn(c, dataNow, _metadata.items)
         /\ UNCHANGED nMdLoops

\* _ensure_have_data finds the field unset and calls _get_odata.
StartGetOdata(c) ==
    /\ pc' = [pc EXCEPT ![c] = "get_odata"]
    /\ page' = [page EXCEPT ![c] = 1]
    /\ acc' = [acc EXCEPT ![c] = <<>>]
    /\ UNCHANGED <<todo, local, ret, last>>

raw_df(c) ==
    /\ pc[c] = "idle" /\ nCalls < MaxCalls
    /\ nCalls' = nCalls + 1
    /\ op' = [op EXCEPT ![c] = "raw_df"]
    /\ IF IsNone(_data) THEN StartGetOdata(c) ELSE Return(c, _data)
    /\ UNCHANGED <<_data, _metadata, server, nFetch, nDataWrites, nMdLoops, nMdWrites,
                   nClean, cleanVars>>

df(c) ==
    /\ pc[c] = "idle" /\ nCalls < MaxCalls
    /\ nCalls' = nCalls + 1
    /\ op' = [op EXCEPT ![c] = "df"]
    /\ IF IsNone(_data)
       THEN /\ StartGetOdata(c)
            /\ UNCHANGED <<_data, nMdLoops, nClean>>
       ELSE AfterData(c, _data)
    /\ UNCHANGED <<_metadata, server, nFetch, nDataWrites, nMdWrites, cleanVars>>

metadata(c) ==
    /\ pc[c] = "idle" /\ nCalls < MaxCalls
    /\ nCalls' = nCalls + 1
    /\ op' = [op EXCEPT ![c] = "metadata"]
    /\ IF IsNone(_metadata)
       THEN /\ pc' = [pc EXCEPT ![c] = "md_root"]
            /\ nMdLoops' = nMdLoops + 1
            /\ UNCHANGED <<page, acc, todo, local, ret, last>>
       ELSE /\ Return(c, _metadata)
            /\ UNCHANGED nMdLoops
    /\ UNCHANGED <<_data, _metadata, server, nFetch, nDataWrites, nMdWrites, nClean,
                   cleanVars>>

\* One request of _get_odata's loop fails: the exception leaves _get_odata and
\* the property; the assignment to self._data is never reached.
GetOdataFails(c) ==
    /\ pc[c] = "get_odata"
    /\ Return(c, FetchError("data", page[c] - 1))
    /\ UNCHANGED <<_data, _metadata, server, op, nCalls, nFetch, nDataWrites, nMdLoops,
                   nMdWrites, nClean, cleanVars>>

\* One request of _get_odata's loop succeeds with a next link.
GetOdataPage(c) ==
    /\ pc[c] = "get_odata"
    /\ page[c] < Len(server.pages)
    /\ acc' = [acc EXCEPT ![c] = Concat(acc[c], server.pages[page[c]])]
    /\ page' = [page EXCEPT ![c] = page[c] + 1]
    /\ UNCHANGED <<_data, _metadata, server, pc, op, todo, local, ret, last, nCalls,
                   nFetch, nDataWrites, nMdLoops, nMdWrites, nClean, cleanVars>>

\* The last page arrives: _get_odata returns, self._data is assigned, and the
\* property goes on (raw_df returns the field, df goes on to clean).
GetOdataLast(c) ==
    /\ pc[c] = "get_odata"
    /\ page[c] = Len(server.pages)
    /\ nFetch' = nFetch + 1
    /\ nDataWrites' = nDataWrites + 1
    /\ LET data == AsTable(Concat(acc[c], server.pages[page[c]]))
       IN  IF op[c] = "raw_df"
           THEN /\ _data' = data
                /\ Return(c, data)
                /\ UNCHANGED <<nMdLoops, nClean>>
           ELSE AfterData(c, data)
    /\ UNCHANGED <<_metadata, server, op, nCalls, nMdWrites, cleanVars>>

\* A request of the metadata loop (the root or a category) fails.
MetadataFails(c) ==
    /\ pc[c] \in {"md_root", "md_item"}
    /\ Return(c, FetchError("metadata", IF pc[c] = "md_root" THEN 0 ELSE 1 + Len(local[c])))
    /\ UNCHANGED <<_data, _metadata, server, op, nCalls, nFetch, nDataWrites, nMdLoops,
                   nMdWrites, nClean, cleanVars>>

\* The root request succeeds: metadata = {} and the loop starts.  Every served
\* root names at least one category that is not reserved.
MetadataRoot(c) ==
    /\ pc[c] = "md_root"
    /\ pc' = [pc EXCEPT ![c] = "md_item"]
    /\ todo' = [todo EXCEPT ![c] = NonReserved(server.root)]
    /\ local' = [local EXCEPT ![c] = <<>>]
    /\ _metadata' = MetadataField(_metadata, <<>>, FALSE)
    /\ UNCHANGED <<_data, server, op, page, acc, ret, last, nCalls, nFetch, nDataWrites,
                   nMdLoops, nMdWrites, nClean, cleanVars>>

\* A category request succeeds and more are to come.
MetadataItem(c) ==
    /\ pc[c] = "md_item"
    /\ Len(todo[c]) > 1
    /\ local' = [local EXCEPT ![c] = Append(local[c], Category(server, Head(todo[c])))]
    /\ _metadata' = MetadataField(_metadata, local'[c], FALSE)
    /\ todo' = [todo EXCEPT ![c] = Tail(todo[c])]
    /\ UNCHANGED <<_data, server, pc, op, page, acc, ret, last, nCalls, nFetch,
                   nDataWrites, nMdLoops, nMdWrites, nClean, cleanVars>>

\* The last category arrives: self._metadata is assigned and the property
\* goes on (metadata returns the field, df runs the rest of the pipeline).
MetadataLast(c) ==
    /\ pc[c] = "md_item"
    /\ Len(todo[c]) = 1
    /\ _metadata' = MetadataField(_metadata,
                                  Append(local[c], Category(server, Head(todo[c]))), TRUE)
    /\ nMdWrites' = nMdWrites + 1
    /\ IF op[c] = "metadata"
       THEN /\ Return(c, _metadata')
            /\ UNCHANGED <<_data, nClean>>
       ELSE CleanAndReturn(c, _data, _metadata'.items)
    /\ UNCHANGED <<server, op, nCalls, nFetch, nDataWrites, nMdLoops, cleanVars>>

\* Single-threaded use: one thread makes every access, each running to its end
\* before the next one starts.
MainThread == CHOOSE c \in Callers : \A other \in Callers : c <= other

Next ==
    \/ raw_df(MainThread)
    \/ df(MainThread)
    \/ metadata(MainThread)
    \/ GetOdataFails(MainThread)
    \/ GetOdataPage(MainThread)
    \/ GetOdataLast(MainThread)
    \/ MetadataFails(MainThread)
    \/ MetadataRoot(MainThread)
    \/ MetadataItem(MainThread)
    \/ MetadataLast(MainThread)

Spec == InitEntity /\ [][Next]_vars

\* A concurrent embedding: the callers' steps interleave at the requests.
NextConcurrent ==
    \E c \in Callers :
        \/ raw_df(c)
        \/ df(c)
        \/ metadata(c)
        \/ GetOdataFails(c)
        \/ GetOdataPage(c)
        \/ GetOdataLast(c)
        \/ MetadataFails(c)
        \/ MetadataRoot(c)
        \/ MetadataItem(c)
        \/ MetadataLast(c)

SpecConcurrent == InitEntity /\ [][NextConcurrent]_vars

\* ------------------------------------- temporal conversion on its own

\* The period column's values: an optional leading character, four digits,
\* two letters, two digits (every count 00..99 under the three known markers,
\* an unknown marker and a lower-case one), and texts the regex does not match.
Years == { <<"2", "0", "2", "0">>, <<"1", "9", "9", "9">>, <<"0", "0", "0", "0">> }
Markers == { <<"J", "J">>, <<"K", "W">>, <<"M", "M">>, <<"H", "J">>, <<"j", "j">> }
PeriodTexts ==
    { pre \o y \o mk \o <<Digits[a], Digits[b]>> :
          pre \in {<<>>, <<"X">>}, y \in Years, mk \in Markers,
          a \in 1..10, b \in 1..10 }
    \cup { <<>>, <<"2", "0", "2", "0">>, <<"2", "0", "J", "J", "0", "0">>,
           <<"2", "0", "2", "0", "J", "0", "0">>, sTotaal }

PeriodCols == <<sMeasure, sValue, sPerioden>>
PeriodTable(p) ==
    [cols |-> PeriodCols,
     rows |-> << [c \in Range(PeriodCols) |->
                     CASE c = sMeasure -> Str(sM1) [] c = sValue -> Num(1) [] OTHER -> Str(p)] >>]

InitPeriod ==
    /\ EntityUnused
    /\ raw \in {PeriodTable(p) : p \in PeriodTexts}
    /\ md = <<>>
    /\ stage = 0
    /\ ps = Start(raw)
    /\ hist = <<raw>>

\* _cbs_add_date_column runs on the table.
AddDateColumn ==
    /\ stage = 0
    /\ stage' = 1
    /\ ps' = _cbs_add_date_column(ps)
    /\ hist' = IF ps'.err = NoError THEN Append(hist, Frame(ps')) ELSE hist
    /\ UNCHANGED <<raw, md, entityVars>>

NextPeriod == AddDateColumn

SpecPeriod == InitPeriod /\ [][NextPeriod]_vars

\* ------------------------------------------------------------ properties

\* hist[k + 1] is the table stage k returned.
AfterStage(k) == hist[k + 1]
StageDone(k) == stage >= k /\ Len(hist) >= k + 1
Cleaned == stage = 6 /\ ps.err = NoError

\* The text of one cell: a string cell's own text, any other cell's repr.
CellText(cell) == IF cell.k = "str" THEN cell.s ELSE Repr(cell)
HasTotaalCell(row, cols) == \E c \in Range(cols) : Contains(CellText(row[c]), sTotaal)

\* Rows a and b agree on the columns K.
Agree(a, b, K) == \A c \in K : a[c] = b[c]

\* The dimension columns of the raw table other than the period column.
Dimensions == Range(raw.cols) \ {sId, sValueAttribute, sMeasure, sValue, sPerioden}
MeasureNames == {AfterStage(3).rows[i][sMeasure].s : i \in 1..NRows(AfterStage(3))}

\* The cleaned table t has one row for each key (over the columns K) of the
\* rows of the table before the pivot that satisfy Keep, and no other row, and
\* each measure cell holds the value of the row before the pivot with that key
\* and measure, or a missing value when there is none.
OneRowPerKey(t, K, Keep(_)) ==
    LET pre == AfterStage(3)
    IN  /\ \A r \in 1..NRows(t) : \E i \in 1..NRows(pre) : Agree(t.rows[r], pre.rows[i], K)
        /\ \A i \in 1..NRows(pre) :
               Cardinality({r \in 1..NRows(t) : Agree(t.rows[r], pre.rows[i], K)})
                   = IF Keep(pre.rows[i]) THEN 1 ELSE 0
        /\ \A r \in 1..NRows(t) : \A m \in MeasureNames :
               LET src == {i \in 1..NRows(pre) :
                              /\ Agree(t.rows[r], pre.rows[i], K)
                              /\ pre.rows[i][sMeasure] = Str(m)}
               IN  IF src = {} THEN t.rows[r][m] = NaN
                   ELSE \A i \in src : t.rows[r][m] = pre.rows[i][sValue]

\* C1, as stated: for a raw table with a period column that cleaning accepts,
\* the cleaned table's columns are exactly the non-period dimensions, Date and
\* one column per measure, with one row per combination of (dimension values,
\* Date), each measure cell holding the raw row's Value.
C1_ColumnsAsStated ==
    (Cleaned /\ HasCol(raw, sPerioden)) =>
        /\ Range(AfterStage(6).cols) = Dimensions \cup {sDate} \cup MeasureNames
        /\ OneRowPerKey(AfterStage(6), Dimensions \cup {sDate}, LAMBDA row : TRUE)

\* C1, amended: the cleaned table also keeps the Frequency column (Y, Q or M),
\* which is part of the row key, and holds no row with a cell that contains
\* "Totaal"; Id, ValueAttribute, Perioden, Year and Count are gone.
C1_CleanedShape ==
    (Cleaned /\ HasCol(raw, sPerioden)) =>
        /\ Range(AfterStage(6).cols)
               = Dimensions \cup {sFrequency, sDate} \cup MeasureNames
        /\ Range(AfterStage(6).cols) \cap {sId, sValueAttribute, sPerioden, sYear, sCount} = {}
        /\ \A r \in 1..NRows(AfterStage(6)) :
               AfterStage(6).rows[r][sFrequency] \in {Str(<<"Y">>), Str(<<"Q">>), Str(<<"M">>)}
        /\ OneRowPerKey(AfterStage(6), Dimensions \cup {sFrequency, sDate},
                        LAMBDA row : ~HasTotaalCell(row, PivotIndex(AfterStage(3))))

\* A yearly and a quarterly observation of the same region and date end up as
\* two rows of the cleaned table.
C1_Witness ==
    /\ Cleaned /\ HasCol(raw, sPerioden)
    /\ NRows(AfterStage(6)) = 2
    /\ Agree(AfterStage(6).rows[1], AfterStage(6).rows[2], {sRegion, sDate})

\* C5: summation-row removal returns the table with the same columns and
\* exactly the rows none of whose cells has a text containing "Totaal", in
\* their order; the column names play no part.
C5_KeepsRowsWithoutTotaal ==
    Cleaned =>
        /\ AfterStage(6).cols = AfterStage(5).cols
        /\ AfterStage(6).rows
               = SelectSeq(AfterStage(5).rows,
                           LAMBDA row : ~HasTotaalCell(row, AfterStage(5).cols))

\* A row whose region is "Totaalwaarde" is removed and a row under a measure
\* column named "Totaal" is kept.
C5_Witness ==
    /\ Cleaned
    /\ \E i \in 1..NRows(AfterStage(5)) : AfterStage(5).rows[i][sRegion] = Str(sTotaalwaarde)
    /\ NRows(AfterStage(6)) = 1
    /\ sTotaal \in Range(AfterStage(6).cols)

\* Two rows of the table handed to the pivot agree on every column but Value.
DuplicateAtPivot ==
    \E i, j \in 1..NRows(AfterStage(3)) :
        /\ i < j
        /\ Agree(AfterStage(3).rows[i], AfterStage(3).rows[j],
                 Range(AfterStage(3).cols) \ {sValue})

\* C6: when two rows at the pivot stage share index key and Measure, the pivot
\* raises and the pipeline ends there without a table.
C6_DuplicateKeyAborts ==
    (stage >= 4 /\ DuplicateAtPivot) =>
        /\ stage = 4
        /\ ps.err = "ValueError"
        /\ Len(hist) = 4

\* The pivot has raised on two rows with the same key and measure and
\* different values.
C6_Witness ==
    /\ stage = 4 /\ ps.err = "ValueError"
    /\ \E i, j \in 1..NRows(AfterStage(3)) :
           /\ Agree(AfterStage(3).rows[i], AfterStage(3).rows[j],
                    Range(AfterStage(3).cols) \ {sValue})
           /\ AfterStage(3).rows[i][sValue] # AfterStage(3).rows[j][sValue]

\* C7: after the substitution stage, in the column of every applied category
\* each cell whose original value is a descriptor's identifier holds that
\* descriptor's new value and every other cell holds its original value.
C7_SimultaneousLookup ==
    StageDone(2) =>
        \A k \in 1..Len(md) :
            (EndsWith(md[k].name, sCodes) /\ ~Contains(md[k].name, sPerioden)) =>
                \A i \in 1..NRows(AfterStage(1)) :
                    LET col == StrReplace(md[k].name, sCodes, <<>>)
                        before == AfterStage(1).rows[i][col]
                        after == AfterStage(2).rows[i][col]
                        hits == {j \in 1..Len(md[k].value) :
                                    Str(md[k].value[j].Identifier) = before}
                    IN  IF hits = {} THEN after = before
                        ELSE \A j \in hits : after = Str(NewValue(md[k].value[j]))

\* ---- temporal conversion alone

PeriodText == raw.rows[1][sPerioden].s
FirstMatch == CHOOSE i \in 1..Len(PeriodText) :
                  MatchAt(PeriodText, i) /\ \A j \in 1..(i - 1) : ~MatchAt(PeriodText, j)
Matches == \E i \in 1..Len(PeriodText) : MatchAt(PeriodText, i)
MatchedYear == int(SubSeq(PeriodText, FirstMatch, FirstMatch + 3))
MatchedMarker == SubSeq(PeriodText, FirstMatch + 4, FirstMatch + 5)
MatchedCount == int(SubSeq(PeriodText, FirstMatch + 6, FirstMatch + 7))

\* C4: a matching period code decodes to January 1 of the year under JJ, to
\* the first day of month count under MM and to the first day of month
\* count*3-2 under KW; any other marker, and a text that does not match, gives
\* a null Date.
C4_DecodesEveryMatch ==
    stage = 1 =>
        /\ ps.err = NoError
        /\ Frame(ps).rows[1][sDate]
               = IF ~Matches THEN NaN
                 ELSE CASE MatchedMarker = <<"J", "J">> -> Timestamp(MatchedYear, 1, 1)
                        [] MatchedMarker = <<"M", "M">> ->
                               Timestamp(MatchedYear, MatchedCount, 1)
                        [] MatchedMarker = <<"K", "W">> ->
                               Timestamp(MatchedYear, MatchedCount * 3 - 2, 1)
                        [] OTHER -> NaN

\* C8: the temporal conversion completes without raising, whatever the period
\* text, and leaves a date or a null Date in the row.
C8_NeverRaises ==
    stage = 1 =>
        /\ ps.err = NoError
        /\ HasCol(Frame(ps), sDate)
        /\ Frame(ps).rows[1][sDate].k \in {"date", "nan"}

\* ---- the entity

\* Every observation the API serves, as one table.
RECURSIVE AllPages(_)
AllPages(pages) == IF Len(pages) = 0 THEN <<>> ELSE Head(pages) \o AllPages(Tail(pages))
ServedTable == AsTable(AllPages(server.pages))

Failed(value) == "error" \in DOMAIN value /\ value.error = "FetchError"

\* C2: in single-threaded use the observations are fetched to the end at most
\* once and each field is written at most once; once _data is set it never
\* changes and no access starts _get_odata, once _metadata is set it never
\* changes and no access starts the metadata loop; and every df access that
\* finds both fields set runs the cleaning pipeline again.
C2_FetchedAndWrittenOnce ==
    /\ [](nFetch <= 1 /\ nDataWrites <= 1 /\ nMdWrites <= 1)
    /\ [][/\ _data # None =>
               /\ _data' = _data
               /\ nFetch' = nFetch /\ nDataWrites' = nDataWrites
               /\ \A c \in Callers : pc'[c] = "get_odata" => pc[c] = "get_odata"
          /\ _metadata # None =>
               /\ _metadata' = _metadata
               /\ nMdLoops' = nMdLoops /\ nMdWrites' = nMdWrites
          /\ (/\ nCalls' = nCalls + 1 /\ op'[MainThread] = "df"
              /\ _data # None /\ _metadata # None) => nClean' = nClean + 1]_vars

\* Three accesses, one fetch of each kind, two runs of the pipeline.
C2_Witness ==
    /\ nCalls = 3 /\ nFetch = 1 /\ nDataWrites = 1
    /\ nMdLoops = 1 /\ nMdWrites = 1 /\ nClean = 2

\* C3: a run of the cleaning pipeline leaves both cache fields as they were
\* (the raw table as fetched, the metadata as fetched), and what df returns
\* depends on the served data alone, so that successive df accesses return
\* equal tables.
C3_PipelineLeavesCaches ==
    [][nClean' = nClean + 1 =>
          /\ _data' = ServedTable
          /\ _data # None => _data' = _data
          /\ _metadata' = Dict(server.cats)
          /\ _metadata # None => _metadata' = _metadata
          /\ \E c \in Callers :
                 /\ pc'[c] = "idle" /\ last' = c
                 /\ (ret[c] # None /\ ~Failed(ret[c]) /\ op[c] = "df" /\ pc[c] = "idle")
                        => ret'[c] = ret[c]]_vars

\* df has returned a table twice and raw_df is served from the cache.
C3_Witness ==
    /\ nClean = 2 /\ nCalls = 3
    /\ _data = ServedTable
    /\ op[MainThread] = "raw_df"
    /\ ret[MainThread] = ServedTable

\* C9: with two callers whose steps interleave, the observations are still
\* fetched at most once and each field is still written at most once.
C9_AtMostOnceUnderRace ==
    nFetch <= 1 /\ nDataWrites <= 1 /\ nMdWrites <= 1

\* C10: a field is either unset or holds everything the API serves, never a
\* part of it; the access that ended in a failed request has left its field
\* unset; and a fetch under way has gathered exactly the pages, or the
\* categories, before its position, starting from none.
C10_FailureLeavesFieldUnset ==
    /\ _data \in {None, ServedTable}
    /\ _metadata \in {None, Dict(server.cats)}
    /\ \A c \in Callers :
           /\ (pc[c] = "idle" /\ last = c /\ Failed(ret[c])) =>
                  IF ret[c].during = "data" THEN _data = None ELSE _metadata = None
           /\ pc[c] = "get_odata" =>
                  /\ _data = None
                  /\ page[c] \in 1..Len(server.pages)
                  /\ acc[c] = AllPages(SubSeq(server.pages, 1, page[c] - 1))
           /\ pc[c] = "md_root" => _metadata = None
           /\ pc[c] = "md_item" =>
                  /\ _metadata = None
                  /\ local[c] \o [j \in 1..Len(todo[c]) |-> Category(server, todo[c][j])]
                         = server.cats

\* The metadata loop has failed after two successful requests, inside df, with
\* the observations already cached.
C10_Witness ==
    /\ pc[MainThread] = "idle"
    /\ ret[MainThread] = FetchError("metadata", 2)
    /\ _metadata = None
    /\ _data = ServedTable

====
